---- MODULE Spec2Model ----
(***************************************************************************)
(* go-triparclient: the blocking BufferPool (buffer_pool.go) and the       *)
(* streaming upload TriparClient.PutObject (tripar.go), a producer         *)
(* goroutine and a consumer loop joined by a channel of depth 1, writing   *)
(* to a remote object store with PUT / POST / DELETE requests.             *)
(***************************************************************************)
EXTENDS Integers, Sequences, FiniteSets, TLC

\* ------------------------------------------------------------- bounds
MaxCap == 3
MaxBuf == 2
MaxSrc == 5
MaxRead == 2
NumClients == 3
MaxChunk == 3
MaxRequests == 7
MaxCode == 21

\* ------------------------------------------------------------- constants
\* pipe := make(chan *PutPiece, 1)
PipeDepth == 1

\* ------------------------------------------------------------- values
Nil == "nil"
EOF == "EOF"
ErrUnexpectedEOF == "ErrUnexpectedEOF"
ErrSource == "ErrSource"
ErrRequest == "ErrRequest"
ErrResponse == "ErrResponse"

\* goroutine identities the pool's notify list holds
Producer == 0
Clients == 1..NumClients

VARIABLES
    \* BufferPool
    cap, bufferSize, size, buffers, waiters,
    \* countingBufferPool of the tests, wrapped around the pool for one client
    count,
    \* plain pool users (goroutines that Get, hold and Put)
    clientPc, clientBuf,
    \* the io.Reader handed to PutObject; srcDone: it returned its last error
    srcLen, srcErr, srcPos, srcDone,
    \* PutObject
    pipe, pipeClosed, pipeWriterDone, pipeReaderDone,
    prodPc, prodPiece, consPc, consPiece,
    written, err,
    \* the remote store and the requests PutObject made to it
    obj, requests,
    \* TriparClient.getChunkSize and one GetObject call: its span, how far
    \* the call got, the function it dispatched to, its error, the Stat size
    getChunkSize, span, getPc, getPath, getErr, statSize,
    \* getObjectByChunks: left, start and the background goroutine
    left, start, fetchPc, rlen, copied,
    \* the stream handed to the caller: bytes offered by the writer side and
    \* not read yet, both ends of the pipe, the caller reading it
    pending, wClosed, wErr, rClosed, readPc, got, readErr,
    \* the requests GetObject made
    getRequests,
    \* a response body and what the two decoders made of it
    body, errorResult, responseResult,
    \* the store behind the endpoint: one that serves what it is asked for,
    \* or one whose responses declare and carry any lengths
    server

poolVars == <<cap, bufferSize, size, buffers, waiters>>
clientVars == <<clientPc, clientBuf>>
srcVars == <<srcLen, srcErr, srcPos, srcDone>>
chanVars == <<pipe, pipeClosed, pipeWriterDone, pipeReaderDone>>
prodVars == <<prodPc, prodPiece>>
consVars == <<consPc, consPiece, written, err>>
storeVars == <<obj, requests>>
uploadVars == <<count, srcVars, chanVars, prodVars, consVars, storeVars>>
callVars == <<getChunkSize, span, getPc, getPath, getErr, statSize>>
fetchVars == <<left, start, fetchPc, rlen, copied>>
streamVars == <<pending, wClosed, wErr, rClosed, readPc, got, readErr>>
getVars == <<callVars, fetchVars, streamVars, getRequests>>
decVars == <<body, errorResult, responseResult>>
restVars == <<getVars, decVars, server>>
vars == <<poolVars, clientVars, uploadVars, getVars, decVars, server>>

Range(s) == {s[i] : i \in 1..Len(s)}

Min(a, b) == IF a < b THEN a ELSE b

\* ================================================================ BufferPool
\* NewBufferPool: nothing allocated, empty free list, nobody waiting.
PoolInit ==
    /\ cap \in 1..MaxCap
    /\ bufferSize \in 1..MaxBuf
    /\ size = 0
    /\ buffers = <<>>
    /\ waiters = <<>>

\* the guard of the allocation branch of Get
CanAllocateOffByOne == size <= cap

CanAllocate == size < cap

\* Get that prefers a new buffer to an idle one
GetOutcomeAllocFirst ==
    IF CanAllocate
    THEN [kind |-> "alloc", buf |-> size + 1]
    ELSE IF Len(buffers) = 0
         THEN [kind |-> "wait", buf |-> 0]
         ELSE [kind |-> "take", buf |-> Head(buffers)]

\* One pass of Get under the mutex, from Lock (or from the wakeup inside
\* cond.Wait, which re-locks) to the return or to the next cond.Wait:
\* what the pass decides.  A buffer is named by its allocation number.
GetOutcome ==
    IF Len(buffers) = 0
    THEN IF CanAllocate
         THEN [kind |-> "alloc", buf |-> size + 1]
         ELSE [kind |-> "wait", buf |-> 0]
    ELSE [kind |-> "take", buf |-> Head(buffers)]

\* ... and what the pass does to the pool, for goroutine t.
GetPass(t) ==
    LET r == GetOutcome IN
    /\ size' = IF r.kind = "alloc" THEN size + 1 ELSE size
    /\ buffers' = IF r.kind = "take" THEN Tail(buffers) ELSE buffers
    /\ waiters' = IF r.kind = "wait" THEN Append(waiters, t) ELSE waiters
    /\ UNCHANGED <<cap, bufferSize>>

\* a goroutine inside cond.Wait resumes only after a Signal took it off the
\* notify list
Woken(t) == t \notin Range(waiters)

\* cond.Signal: wakes the longest waiting goroutine, if there is one
SignalNobody == waiters

Signal == IF waiters = <<>> THEN waiters ELSE Tail(waiters)

\* Put that wakes every blocked Get, as cond.Broadcast would
PoolPutBroadcast(b) ==
    /\ buffers' = <<b>> \o buffers
    /\ waiters' = <<>>
    /\ UNCHANGED <<cap, bufferSize, size>>

\* Put: push the buffer on the front of the free list and signal.
PoolPut(b) ==
    /\ buffers' = <<b>> \o buffers
    /\ waiters' = Signal
    /\ UNCHANGED <<cap, bufferSize, size>>

\* ---------------------------------------------------------- plain pool users
ClientGet(c) ==
    /\ clientPc[c] = "idle"
    /\ GetPass(c)
    /\ clientPc' = [clientPc EXCEPT ![c] =
                        IF GetOutcome.kind = "wait" THEN "wait" ELSE "holding"]
    /\ clientBuf' = [clientBuf EXCEPT ![c] = GetOutcome.buf]
    /\ UNCHANGED uploadVars
    /\ UNCHANGED restVars

ClientResume(c) ==
    /\ clientPc[c] = "wait"
    /\ Woken(c)
    /\ GetPass(c)
    /\ clientPc' = [clientPc EXCEPT ![c] =
                        IF GetOutcome.kind = "wait" THEN "wait" ELSE "holding"]
    /\ clientBuf' = [clientBuf EXCEPT ![c] = GetOutcome.buf]
    /\ UNCHANGED uploadVars
    /\ UNCHANGED restVars

ClientPut(c) ==
    /\ clientPc[c] = "holding"
    /\ PoolPut(clientBuf[c])
    /\ clientPc' = [clientPc EXCEPT ![c] = "idle"]
    /\ clientBuf' = [clientBuf EXCEPT ![c] = 0]
    /\ UNCHANGED uploadVars
    /\ UNCHANGED restVars

\* ================================================================ the source
\* LongDataReader of the tests: the byte at 0-based position i
SrcByte(i) == i % 10

\* One Read of the source into a slice with `room` bytes left, from position
\* pos.  A reader may deliver fewer bytes than asked for (at most m here) and
\* may report its terminal error together with the last bytes or
\* (late) by a further Read that returns nothing.
SrcRead(pos, room, m, late) ==
    IF pos >= srcLen
    THEN [n |-> 0, err |-> srcErr]
    ELSE LET n == Min(Min(m, room), srcLen - pos) IN
         [n |-> n, err |-> IF pos + n = srcLen /\ ~late THEN srcErr ELSE Nil]

\* ioutils.ReadFillBuffer cut short: one Read only, as a plain reader.Read
ReadOnce(pos, n, m, late) ==
    LET r == SrcRead(pos, bufferSize - n, m, late) IN
    [n |-> n + r.n, err |-> r.err]

\* ioutils.ReadFillBuffer: keep reading into the same buffer until it is
\* full or the reader returns an error.
RECURSIVE ReadFillBuffer(_, _, _, _)
ReadFillBuffer(pos, n, m, late) ==
    IF n >= bufferSize
    THEN [n |-> n, err |-> Nil]
    ELSE LET r == SrcRead(pos, bufferSize - n, m, late) IN
         IF r.err # Nil
         THEN [n |-> n + r.n, err |-> r.err]
         ELSE ReadFillBuffer(pos + r.n, n + r.n, m, late)

\* the bytes of the source from position pos on, n of them
SrcBytes(pos, n) == [k \in 1..n |-> SrcByte(pos + k - 1)]

\* the whole content of the source up to its end
SrcContent == SrcBytes(0, srcLen)

\* ================================================================ the store
\* The remote object at the path of the upload.
Absent == [exists |-> FALSE, data |-> <<>>]

\* PUT: create or replace
StorePut(data) == [exists |-> TRUE, data |-> data]

\* POST with Range bytes=a-b: write data at offset a
StorePost(o, a, data) ==
    [exists |-> TRUE,
     data |-> SubSeq(o.data, 1, a) \o data
              \o SubSeq(o.data, a + Len(data) + 1, Len(o.data))]

\* a request the store can serve; any request may still fail on the way
CanServe(req) ==
    \/ req.method = "PUT"
    \/ req.method = "DELETE" /\ obj.exists
    \/ req.method = "POST" /\ obj.exists /\ req.range[1] <= Len(obj.data)

Outcomes(req) == (IF CanServe(req) THEN {"ok"} ELSE {}) \cup {"reqerr", "rsperr"}

\* the error a failed request leaves in the caller
OutcomeErr(o) == IF o = "reqerr" THEN ErrRequest ELSE ErrResponse

\* ================================================================ PutObject
NoPiece == [buf |-> 0, data |-> <<>>, err |-> Nil]

UploadInit ==
    /\ count = 0
    /\ srcLen \in 0..MaxSrc
    /\ srcErr \in {EOF, ErrUnexpectedEOF, ErrSource}
    /\ srcPos = 0
    /\ srcDone = FALSE
    /\ pipe = <<>>
    /\ pipeClosed = FALSE
    /\ pipeWriterDone = FALSE
    /\ pipeReaderDone = FALSE
    /\ prodPc = "get"
    /\ prodPiece = NoPiece
    /\ consPc = "recv"
    /\ consPiece = NoPiece
    /\ written = 0
    /\ err = Nil
    /\ obj \in {Absent, StorePut(<<255>>)}
    /\ requests = <<>>

\* ------------------------------------------------------------ the producer
\* piece := &PutPiece{Buffer: tp.bufferPool.Get()}: the call, counted by the
\* countingBufferPool before it may block
ProdGet ==
    /\ prodPc = "get"
    /\ count' = count + 1
    /\ GetPass(Producer)
    /\ prodPc' = IF GetOutcome.kind = "wait" THEN "wait" ELSE "read"
    /\ prodPiece' = [NoPiece EXCEPT !.buf = GetOutcome.buf]
    /\ UNCHANGED <<clientVars, srcVars, chanVars, consVars, storeVars>>
    /\ UNCHANGED restVars

\* the producer woken inside bufferPool.Get
ProdGetResume ==
    /\ prodPc = "wait"
    /\ Woken(Producer)
    /\ GetPass(Producer)
    /\ prodPc' = IF GetOutcome.kind = "wait" THEN "wait" ELSE "read"
    /\ prodPiece' = [NoPiece EXCEPT !.buf = GetOutcome.buf]
    /\ UNCHANGED <<count, clientVars, srcVars, chanVars, consVars, storeVars>>
    /\ UNCHANGED restVars

\* piece.Read, piece.Err = ioutils.ReadFillBuffer(reader, piece.Buffer)
ProdRead ==
    /\ prodPc = "read"
    /\ \E m \in 1..MaxRead, late \in BOOLEAN :
         LET r == ReadFillBuffer(srcPos, 0, m, late) IN
         /\ prodPiece' = [prodPiece EXCEPT !.data = SrcBytes(srcPos, r.n),
                                           !.err = r.err]
         /\ srcPos' = srcPos + r.n
         /\ srcDone' = (r.err # Nil)
    /\ prodPc' = "select"
    /\ UNCHANGED <<poolVars, count, clientVars, srcLen, srcErr, chanVars,
                   consVars, storeVars>>
    /\ UNCHANGED restVars

\* where the producer goes after the piece went into the pipe
AfterSendNoBreak(piece) == "get"

AfterSend(piece) == IF piece.err # Nil THEN "closeWriterDone" ELSE "get"

\* a handoff channel one piece deeper
PipeHasRoomDeeper == Len(pipe) < PipeDepth + 1

\* a send on the buffered channel does not block
PipeHasRoom == Len(pipe) < PipeDepth

\* select, case pipe <- piece: the channel has room
ProdSend ==
    /\ prodPc = "select"
    /\ PipeHasRoom
    /\ pipe' = Append(pipe, prodPiece)
    /\ prodPc' = AfterSend(prodPiece)
    /\ prodPiece' = NoPiece
    /\ UNCHANGED <<poolVars, count, clientVars, srcVars, pipeClosed,
                   pipeWriterDone, pipeReaderDone, consVars, storeVars>>
    /\ UNCHANGED restVars

\* what the abort branch gives back to the pool
AbortPutLeak(b) == UNCHANGED <<poolVars, count>>

AbortPut(b) == PoolPut(b) /\ count' = count - 1

\* select, case <-pipeReaderDone: give the buffer back and return
ProdAbort ==
    /\ prodPc = "select"
    /\ pipeReaderDone
    /\ AbortPut(prodPiece.buf)
    /\ prodPiece' = NoPiece
    /\ prodPc' = "closeWriterDone"
    /\ UNCHANGED <<clientVars, srcVars, chanVars, consVars, storeVars>>
    /\ UNCHANGED restVars

\* defer close(pipeWriterDone), the deferred call that runs first
ProdCloseWriterDone ==
    /\ prodPc = "closeWriterDone"
    /\ pipeWriterDone' = TRUE
    /\ prodPc' = "closePipe"
    /\ UNCHANGED <<poolVars, count, clientVars, srcVars, pipe, pipeClosed,
                   pipeReaderDone, prodPiece, consVars, storeVars>>
    /\ UNCHANGED restVars

\* defer close(pipe)
ProdClosePipe ==
    /\ prodPc = "closePipe"
    /\ pipeClosed' = TRUE
    /\ prodPc' = "done"
    /\ UNCHANGED <<poolVars, count, clientVars, srcVars, pipe, pipeWriterDone,
                   pipeReaderDone, prodPiece, consVars, storeVars>>
    /\ UNCHANGED restVars

\* ------------------------------------------------------------ the consumer
\* handlePiece, line 420: a piece that carries a source failure
PieceFailedLikeReadFull(piece) == piece.err \notin {Nil, EOF, ErrUnexpectedEOF}

PieceFailed(piece) == piece.err # Nil /\ piece.err # EOF

\* handlePiece, lines 424-437: the write request of a piece
RequestAlwaysPut(piece) ==
    [method |-> "PUT", range |-> <<>>, n |-> Len(piece.data),
     status |-> "inflight"]

RequestRangeFromZero(piece) ==
    IF written = 0
    THEN [method |-> "PUT", range |-> <<>>, n |-> Len(piece.data),
          status |-> "inflight"]
    ELSE [method |-> "POST", range |-> <<0, Len(piece.data) - 1>>,
          n |-> Len(piece.data), status |-> "inflight"]

RequestFor(piece) ==
    IF written = 0
    THEN [method |-> "PUT", range |-> <<>>, n |-> Len(piece.data),
          status |-> "inflight"]
    ELSE [method |-> "POST",
          range |-> <<written, written + Len(piece.data) - 1>>,
          n |-> Len(piece.data), status |-> "inflight"]

\* the store after it served the request carrying data
Served(req, data) ==
    IF req.method = "PUT" THEN StorePut(data)
    ELSE IF req.method = "POST" THEN StorePost(obj, req.range[1], data)
    ELSE Absent

\* the result of the last request, written into the log
Settle(o) ==
    [requests EXCEPT ![Len(requests)].status = IF o = "ok" THEN "ok" ELSE "failed"]

\* the deferred call of lines 411-415 runs DeleteObject
NeedsDeleteNever == FALSE

\* a cleanup that runs only when something was written
NeedsDeleteIfWritten == err # Nil /\ written > 0

NeedsDelete == err # Nil

\* the named result after the deferred DeleteObject returned e
ErrAfterDeleteOverwritten(e) == IF e = Nil THEN err ELSE e

ErrAfterDelete(e) == err

\* where the consumer loop goes after a request failed
AfterFailureRetry == "handle"

AfterFailure == "deferDelete"

\* piece, ok := <-pipe with a piece in the channel
ConsRecv ==
    /\ consPc = "recv"
    /\ pipe # <<>>
    /\ consPiece' = Head(pipe)
    /\ pipe' = Tail(pipe)
    /\ consPc' = "handle"
    /\ UNCHANGED <<poolVars, count, clientVars, srcVars, pipeClosed,
                   pipeWriterDone, pipeReaderDone, prodVars, written, err,
                   storeVars>>
    /\ UNCHANGED restVars

\* piece, ok := <-pipe on the closed, empty channel: return nil
ConsRecvClosed ==
    /\ consPc = "recv"
    /\ pipe = <<>>
    /\ pipeClosed
    /\ err' = Nil
    /\ consPc' = "deferDelete"
    /\ UNCHANGED <<poolVars, count, clientVars, srcVars, chanVars, prodVars,
                   consPiece, written, storeVars>>
    /\ UNCHANGED restVars

\* handlePiece on a piece with a source failure: the deferred Put, return
\* piece.Err
ConsHandleFailed ==
    /\ consPc = "handle"
    /\ PieceFailed(consPiece)
    /\ PoolPut(consPiece.buf)
    /\ count' = count - 1
    /\ err' = consPiece.err
    /\ consPiece' = NoPiece
    /\ consPc' = "deferDelete"
    /\ UNCHANGED <<clientVars, srcVars, chanVars, prodVars, written, storeVars>>
    /\ UNCHANGED restVars

\* handlePiece: tp.request(req) goes out
ConsIssue ==
    /\ consPc = "handle"
    /\ ~PieceFailed(consPiece)
    /\ requests' = Append(requests, RequestFor(consPiece))
    /\ consPc' = "request"
    /\ UNCHANGED <<poolVars, count, clientVars, srcVars, chanVars, prodVars,
                   consPiece, written, err, obj>>
    /\ UNCHANGED restVars

\* handlePiece: the request came back well, written += piece.Read, the
\* deferred Put
ConsRequestOk ==
    /\ consPc = "request"
    /\ "ok" \in Outcomes(requests[Len(requests)])
    /\ obj' = Served(requests[Len(requests)], consPiece.data)
    /\ requests' = Settle("ok")
    /\ written' = written + Len(consPiece.data)
    /\ PoolPut(consPiece.buf)
    /\ count' = count - 1
    /\ consPiece' = NoPiece
    /\ consPc' = "recv"
    /\ UNCHANGED <<clientVars, srcVars, chanVars, prodVars, err>>
    /\ UNCHANGED restVars

\* handlePiece: the request failed or the response carried an error, the
\* deferred Put
ConsRequestFailed ==
    /\ consPc = "request"
    /\ \E o \in {"reqerr", "rsperr"} :
         /\ requests' = Settle(o)
         /\ err' = OutcomeErr(o)
    /\ PoolPut(consPiece.buf)
    /\ count' = count - 1
    /\ consPc' = AfterFailure
    /\ consPiece' = IF AfterFailure = "handle" THEN consPiece ELSE NoPiece
    /\ UNCHANGED <<clientVars, srcVars, chanVars, prodVars, written, obj>>
    /\ UNCHANGED restVars

\* the deferred func of lines 411-415 with err != nil: DeleteObject, its
\* result dropped
ConsDelete ==
    /\ consPc = "deferDelete"
    /\ NeedsDelete
    /\ LET req == [method |-> "DELETE", range |-> <<>>, n |-> 0,
                   status |-> "inflight"] IN
       \E o \in Outcomes(req) :
         /\ requests' = Append(requests,
                [req EXCEPT !.status = IF o = "ok" THEN "ok" ELSE "failed"])
         /\ obj' = IF o = "ok" THEN Absent ELSE obj
         /\ err' = ErrAfterDelete(IF o = "ok" THEN Nil ELSE OutcomeErr(o))
    /\ consPc' = "deferDrain"
    /\ UNCHANGED <<poolVars, count, clientVars, srcVars, chanVars, prodVars,
                   consPiece, written>>
    /\ UNCHANGED restVars

\* the deferred func of lines 411-415 with err == nil
ConsNoDelete ==
    /\ consPc = "deferDelete"
    /\ ~NeedsDelete
    /\ consPc' = "deferDrain"
    /\ UNCHANGED <<poolVars, count, clientVars, srcVars, chanVars, prodVars,
                   consPiece, written, err, storeVars>>
    /\ UNCHANGED restVars

\* the deferred func of lines 367-376: close(pipeReaderDone)
ConsCloseReaderDone ==
    /\ consPc = "deferDrain"
    /\ pipeReaderDone' = TRUE
    /\ consPc' = "drain"
    /\ UNCHANGED <<poolVars, count, clientVars, srcVars, pipe, pipeClosed,
                   pipeWriterDone, prodVars, consPiece, written, err, storeVars>>
    /\ UNCHANGED restVars

\* what the drain loop does with the buffer of a piece left in the pipe
DrainPutLeak(b) == UNCHANGED <<poolVars, count>>

DrainPut(b) == PoolPut(b) /\ count' = count - 1

\* for piece := range pipe { tp.bufferPool.Put(piece.Buffer) }
ConsDrainPiece ==
    /\ consPc = "drain"
    /\ pipe # <<>>
    /\ DrainPut(Head(pipe).buf)
    /\ pipe' = Tail(pipe)
    /\ UNCHANGED <<clientVars, srcVars, pipeClosed, pipeWriterDone,
                   pipeReaderDone, prodVars, consVars, storeVars>>
    /\ UNCHANGED restVars

\* a receive that gives up as soon as the channel is empty
RangeOverEmpty == pipe = <<>>

\* range over a channel stops when the channel is closed and empty
RangeOver == pipe = <<>> /\ pipeClosed

\* the range loop ends on the closed, empty channel
ConsDrainEnd ==
    /\ consPc = "drain"
    /\ RangeOver
    /\ consPc' = "waitWriter"
    /\ UNCHANGED <<poolVars, count, clientVars, srcVars, chanVars, prodVars,
                   consPiece, written, err, storeVars>>
    /\ UNCHANGED restVars

\* <-pipeWriterDone, and PutObject returns err
ConsReturn ==
    /\ consPc = "waitWriter"
    /\ pipeWriterDone
    /\ consPc' = "returned"
    /\ UNCHANGED <<poolVars, count, clientVars, srcVars, chanVars, prodVars,
                   consPiece, written, err, storeVars>>
    /\ UNCHANGED restVars

\* ================================================================ GetObject
\* span == nil
NilSpan == <<>>

ErrBadRange == "ErrBadRange"
ErrStat == "ErrStat"
ErrGet == "ErrGet"
ErrClosedPipe == "ErrClosedPipe"
ErrShortCopy == "ErrShortCopy"

\* what the store answers to cmd=stat; any request may still fail on the way
StatOutcomes == (IF obj.exists THEN {"ok"} ELSE {}) \cup {"fail"}

\* the bytes a GET with Range bytes=a-b carries: the range, cut at the end
\* of the object
ObjectBytes(a, b) == SubSeq(obj.data, a + 1, Min(b, Len(obj.data) - 1) + 1)

\* a range the store can serve
Satisfiable(a, b) == 0 <= a /\ a <= b /\ a < Len(obj.data)

FailedResponse == [ok |-> FALSE, rlen |-> 0, body |-> <<>>]

\* the responses to a GET of the object: the whole object without a Range
\* header, the bytes of a satisfiable range with their Content-Length, or a
\* failure (always possible)
HonestResponses(range) ==
    {FailedResponse} \cup
    IF ~obj.exists THEN {}
    ELSE IF range = NilSpan
    THEN {[ok |-> TRUE, rlen |-> Len(obj.data), body |-> obj.data]}
    ELSE IF Satisfiable(range[1], range[2])
    THEN {[ok |-> TRUE,
           rlen |-> Len(ObjectBytes(range[1], range[2])),
           body |-> ObjectBytes(range[1], range[2])]}
    ELSE {}

\* the responses of a store that does not keep to the range asked for: any
\* Content-Length from 0 to one more than asked for, with a body of that
\* length, one byte less or one byte more
AnyResponses(range) ==
    LET L == 0..(range[2] - range[1] + 2) IN
    {FailedResponse} \cup
    {[ok |-> TRUE, rlen |-> p[1], body |-> SrcBytes(range[1], p[2])] :
        p \in {q \in L \X L : q[2] - q[1] \in {0 - 1, 0, 1}}}

GetResponses(range) ==
    IF server = "honest" THEN HonestResponses(range)
    ELSE IF range = NilSpan THEN HonestResponses(range)
    ELSE IF 0 <= range[1] /\ range[1] <= range[2] THEN AnyResponses(range)
    ELSE HonestResponses(range)

\* an entry of the request log; rlen and blen are the Content-Length and the
\* body length of the response once a chunk response has come
Unanswered == 0 - 1

GetRequest(range) ==
    [cmd |-> "get", range |-> range, late |-> rClosed,
     rlen |-> Unanswered, blen |-> Unanswered]

StatRequest ==
    [cmd |-> "stat", range |-> NilSpan, late |-> FALSE,
     rlen |-> Unanswered, blen |-> Unanswered]

Answered(log, r) ==
    [log EXCEPT ![Len(log)].rlen = r.rlen, ![Len(log)].blen = Len(r.body)]

notGetVars == <<poolVars, clientVars, uploadVars, decVars, server>>

DownloadInit ==
    /\ span = NilSpan
    /\ getPc = "idle"
    /\ getPath = "none"
    /\ getErr = Nil
    /\ statSize = 0
    /\ left = 0
    /\ start = 0
    /\ fetchPc = "idle"
    /\ rlen = 0
    /\ copied = 0
    /\ pending = <<>>
    /\ wClosed = FALSE
    /\ wErr = Nil
    /\ rClosed = FALSE
    /\ readPc = "idle"
    /\ got = <<>>
    /\ readErr = Nil
    /\ getRequests = <<>>

\* ------------------------------------------------------------ the call
\* GetObject(ctx, path, span): tp.Stat is issued first
GetObject(sp) ==
    /\ getPc = "idle"
    /\ span' = sp
    /\ getRequests' = Append(getRequests, StatRequest)
    /\ getPc' = "stat"
    /\ UNCHANGED <<getChunkSize, getPath, getErr, statSize>>
    /\ UNCHANGED <<fetchVars, streamVars, notGetVars>>

StatOk ==
    /\ getPc = "stat"
    /\ "ok" \in StatOutcomes
    /\ statSize' = Len(obj.data)
    /\ getPc' = "dispatch"
    /\ UNCHANGED <<getChunkSize, span, getPath, getErr>>
    /\ UNCHANGED <<fetchVars, streamVars, getRequests, notGetVars>>

StatFailed ==
    /\ getPc = "stat"
    /\ "fail" \in StatOutcomes
    /\ getErr' = ErrStat
    /\ getPc' = "returned"
    /\ UNCHANGED <<getChunkSize, span, getPath, statSize>>
    /\ UNCHANGED <<fetchVars, streamVars, getRequests, notGetVars>>

\* the test that sends a call to getObjectComplete
UseComplete(sp) ==
    IF sp = NilSpan THEN TRUE ELSE sp[2] - sp[1] <= getChunkSize

\* getObjectComplete: one GET, with the span as its Range if there is one
GetComplete ==
    /\ getPc = "dispatch"
    /\ UseComplete(span)
    /\ getPath' = "complete"
    /\ getRequests' = Append(getRequests, GetRequest(span))
    /\ getPc' = "complete"
    /\ UNCHANGED <<getChunkSize, span, getErr, statSize>>
    /\ UNCHANGED <<fetchVars, streamVars, notGetVars>>

\* the response body is the stream handed to the caller
CompleteOk ==
    /\ getPc = "complete"
    /\ \E r \in GetResponses(span) :
         /\ r.ok
         /\ pending' = r.body
    /\ wClosed' = TRUE
    /\ readPc' = "reading"
    /\ getPc' = "returned"
    /\ UNCHANGED <<getChunkSize, span, getPath, getErr, statSize>>
    /\ UNCHANGED <<wErr, rClosed, got, readErr>>
    /\ UNCHANGED <<fetchVars, getRequests, notGetVars>>

CompleteFailed ==
    /\ getPc = "complete"
    /\ FailedResponse \in GetResponses(span)
    /\ getErr' = ErrGet
    /\ getPc' = "returned"
    /\ UNCHANGED <<getChunkSize, span, getPath, statSize>>
    /\ UNCHANGED <<fetchVars, streamVars, getRequests, notGetVars>>

\* getObjectByChunks: left and start before the first chunk
ChunkLeft(sp) == IF sp = NilSpan THEN statSize ELSE sp[2] - sp[1] + 1

ChunkStart(sp) == IF sp = NilSpan THEN 0 ELSE sp[1]

\* the validation of getObjectByChunks
BadRange(l, s) == l - s > statSize \/ s < 0 \/ l <= 0

GetByChunksBadRange ==
    /\ getPc = "dispatch"
    /\ ~UseComplete(span)
    /\ BadRange(ChunkLeft(span), ChunkStart(span))
    /\ getPath' = "chunks"
    /\ getErr' = ErrBadRange
    /\ getPc' = "returned"
    /\ UNCHANGED <<getChunkSize, span, statSize>>
    /\ UNCHANGED <<fetchVars, streamVars, getRequests, notGetVars>>

\* io.Pipe, the goroutine started, the read end returned
GetByChunks ==
    /\ getPc = "dispatch"
    /\ ~UseComplete(span)
    /\ ~BadRange(ChunkLeft(span), ChunkStart(span))
    /\ getPath' = "chunks"
    /\ left' = ChunkLeft(span)
    /\ start' = ChunkStart(span)
    /\ fetchPc' = "loop"
    /\ readPc' = "reading"
    /\ getPc' = "returned"
    /\ UNCHANGED <<getChunkSize, span, getErr, statSize, rlen, copied>>
    /\ UNCHANGED <<pending, wClosed, wErr, rClosed, got, readErr>>
    /\ UNCHANGED <<getRequests, notGetVars>>

\* ------------------------------------------------------------ the goroutine
\* all that is left asked for in one request
ChunkLenWhole == left

\* nextChunk: the length asked for
ChunkLen == Min(left, getChunkSize)

\* start left where it was after a chunk
NextStartStuck(s, n) == s

\* start += rlen
NextStart(s, n) == s + n

\* w.Close() where the goroutine calls w.CloseWithError(err)
CloseWithErrorDropped(e) == Nil

\* w.CloseWithError(err): the error the read end reports from then on
CloseWithError(e) == e

\* the loop going on after nextChunk has failed
AfterChunkErrorContinue == "loop"

\* the goroutine returns when nextChunk has failed
AfterChunkError == "done"

\* the log of requests holds MaxRequests of them; once it is full the latest
\* request takes the place of the one before it
Logged(log, r) ==
    IF Len(log) < MaxRequests THEN Append(log, r)
    ELSE [log EXCEPT ![Len(log)] = r]

\* for left > 0 { nextChunk() }: the chunk request goes out
FetchRequest ==
    /\ fetchPc = "loop"
    /\ left > 0
    /\ getRequests' =
         Logged(getRequests, GetRequest(<<start, start + ChunkLen - 1>>))
    /\ fetchPc' = "request"
    /\ UNCHANGED <<left, start, rlen, copied>>
    /\ UNCHANGED <<callVars, streamVars, notGetVars>>

\* the response has come with its Content-Length: left and start move on
\* before the body is copied
FetchResponseOk ==
    /\ fetchPc = "request"
    /\ \E r \in GetResponses(getRequests[Len(getRequests)].range) :
         /\ r.ok
         /\ rlen' = r.rlen
         /\ left' = left - r.rlen
         /\ start' = NextStart(start, r.rlen)
         /\ pending' = r.body
         /\ getRequests' = Answered(getRequests, r)
    /\ copied' = 0
    /\ fetchPc' = "copy"
    /\ UNCHANGED <<wClosed, wErr, rClosed, readPc, got, readErr>>
    /\ UNCHANGED <<callVars, notGetVars>>

\* getObjectResponse failed
FetchResponseFailed ==
    /\ fetchPc = "request"
    /\ FailedResponse \in GetResponses(getRequests[Len(getRequests)].range)
    /\ wErr' = CloseWithError(ErrGet)
    /\ wClosed' = TRUE
    /\ fetchPc' = AfterChunkError
    /\ UNCHANGED <<left, start, rlen, copied>>
    /\ UNCHANGED <<pending, rClosed, readPc, got, readErr>>
    /\ UNCHANGED <<callVars, getRequests, notGetVars>>

\* nextChunk without its test of the number of bytes copied
ShortCopyIgnored(n, r) == FALSE

\* if n != rlen
ShortCopy(n, r) == n # r

\* a pipe with a buffer of its own, whose Write returns at once
WrittenAtOnce == TRUE

\* io.Pipe holds no data: a Write returns when the read end has taken all
\* of its bytes
Written == pending = <<>>

\* io.Copy has returned without error, n being the bytes it wrote: the read
\* end took the whole body
FetchCopied ==
    /\ fetchPc = "copy"
    /\ Written
    /\ IF ShortCopy(copied + Len(pending), rlen)
       THEN /\ wErr' = CloseWithError(ErrShortCopy)
            /\ wClosed' = TRUE
            /\ fetchPc' = AfterChunkError
       ELSE /\ fetchPc' = "loop"
            /\ UNCHANGED <<wErr, wClosed>>
    /\ UNCHANGED <<left, start, rlen, copied>>
    /\ UNCHANGED <<pending, rClosed, readPc, got, readErr>>
    /\ UNCHANGED <<callVars, getRequests, notGetVars>>

\* a Write to the pipe whose read end is closed returns io.ErrClosedPipe
FetchWriteClosed ==
    /\ fetchPc = "copy"
    /\ pending # <<>>
    /\ rClosed
    /\ pending' = <<>>
    /\ wErr' = CloseWithError(ErrClosedPipe)
    /\ wClosed' = TRUE
    /\ fetchPc' = AfterChunkError
    /\ UNCHANGED <<left, start, rlen, copied>>
    /\ UNCHANGED <<rClosed, readPc, got, readErr>>
    /\ UNCHANGED <<callVars, getRequests, notGetVars>>

\* left <= 0: w.Close()
FetchEnd ==
    /\ fetchPc = "loop"
    /\ left <= 0
    /\ wClosed' = TRUE
    /\ fetchPc' = "done"
    /\ UNCHANGED <<left, start, rlen, copied>>
    /\ UNCHANGED <<pending, wErr, rClosed, readPc, got, readErr>>
    /\ UNCHANGED <<callVars, getRequests, notGetVars>>

\* ------------------------------------------------------------ the caller
\* one Read of the stream: some of the bytes on offer
StreamRead ==
    /\ readPc = "reading"
    /\ pending # <<>>
    /\ \E k \in 1..Min(MaxRead, Len(pending)) :
         /\ got' = got \o SubSeq(pending, 1, k)
         /\ pending' = SubSeq(pending, k + 1, Len(pending))
         /\ copied' = IF fetchPc = "copy" THEN copied + k ELSE copied
    /\ UNCHANGED <<left, start, fetchPc, rlen>>
    /\ UNCHANGED <<wClosed, wErr, rClosed, readPc, readErr>>
    /\ UNCHANGED <<callVars, getRequests, notGetVars>>

\* a Read once the write end is closed and nothing is on offer: io.EOF, or
\* the error the write end was closed with
StreamReadEnd ==
    /\ readPc = "reading"
    /\ pending = <<>>
    /\ wClosed
    /\ readErr' = IF wErr = Nil THEN EOF ELSE wErr
    /\ readPc' = IF wErr = Nil THEN "eof" ELSE "failed"
    /\ UNCHANGED <<pending, wClosed, wErr, rClosed, got>>
    /\ UNCHANGED <<callVars, fetchVars, getRequests, notGetVars>>

\* the caller closes the stream before its end
StreamClose ==
    /\ readPc = "reading"
    /\ rClosed' = TRUE
    /\ readPc' = "closed"
    /\ UNCHANGED <<pending, wClosed, wErr, got, readErr>>
    /\ UNCHANGED <<callVars, fetchVars, getRequests, notGetVars>>

\* ================================================================ responses
\* A response body as the decoders see it: reading it fails, it is empty, it
\* is not JSON, it is a JSON object with error_code, long_message and
\* short_message, or it is a JSON object without them that does or does not
\* fit the type the caller decodes into.
NoMsg == ""

NoBody == [kind |-> "none", code |-> 0, msg |-> NoMsg, fits |-> FALSE]

\* long_message texts a server may send
Messages == {"message A", "message B"}

CodeBadRange == 10004

Codes == 0..MaxCode \cup {CodeBadRange}

Bodies ==
    {[kind |-> k, code |-> 0, msg |-> NoMsg, fits |-> FALSE] :
        k \in {"readfail", "empty", "malformed"}}
    \cup {[kind |-> "json", code |-> 0, msg |-> NoMsg, fits |-> f] :
              f \in BOOLEAN}
    \cup {[kind |-> "error", code |-> c, msg |-> m, fits |-> FALSE] :
              c \in Codes, m \in Messages}

ErrNotFound == "ErrNotFound"
ErrAlreadyExists == "ErrAlreadyExists"
ErrNotAFile == "ErrNotAFile"
ErrRemote == "ErrRemote"
ErrReadBody == "ErrReadBody"
ErrDecode == "ErrDecode"
ErrPayload == "ErrPayload"

\* no *Error in the chain of a returned error
NoDetail == [code |-> 0, msg |-> NoMsg]

Sentinel(e) == [err |-> e, detail |-> NoDetail]

\* translateError with the server's *Error dropped in the default case
translateErrorBare(e) ==
    CASE e.code = 2 -> Sentinel(ErrNotFound)
      [] e.code = 17 -> Sentinel(ErrAlreadyExists)
      [] e.code = 21 -> Sentinel(ErrNotAFile)
      [] e.code = CodeBadRange -> Sentinel(ErrBadRange)
      [] OTHER -> Sentinel(ErrRemote)

\* translateError(err *Error): a sentinel for the codes of the table, the
\* server's *Error itself, with its code and message, for every other code
translateError(e) ==
    CASE e.code = 2 -> Sentinel(ErrNotFound)
      [] e.code = 17 -> Sentinel(ErrAlreadyExists)
      [] e.code = 21 -> Sentinel(ErrNotAFile)
      [] e.code = CodeBadRange -> Sentinel(ErrBadRange)
      [] OTHER -> [err |-> ErrRemote, detail |-> e]

\* UnmarshalError(body): the structured error of the body if it has the
\* three fields, nothing if it has not, a failure if the body is not JSON
UnmarshalError(b) ==
    IF b.kind \in {"empty", "malformed"} THEN [perr |-> FALSE, err |-> ErrDecode]
    ELSE IF b.kind = "error" THEN [perr |-> TRUE, err |-> Nil]
    ELSE [perr |-> FALSE, err |-> Nil]

\* what a decoder returns: how its error detection classified the body, the
\* error returned, and whether a payload was deserialized
NoResult ==
    [class |-> "undecoded", err |-> Nil, detail |-> NoDetail, payload |-> FALSE]

Result(class, e) ==
    [class |-> class, err |-> e, detail |-> NoDetail, payload |-> FALSE]

\* "tripar error: LMsg: translateError(perr)"
RemoteResult(t) ==
    [class |-> "remote", err |-> t.err, detail |-> t.detail, payload |-> FALSE]

\* the error detection that follows the reading of the body in both decoders
DetectError(b) ==
    LET r == UnmarshalError(b) IN
    IF r.err # Nil THEN Result("decode", ErrDecode)
    ELSE IF r.perr
    THEN RemoteResult(translateError([code |-> b.code, msg |-> b.msg]))
    ELSE Result("none", Nil)

\* UnmarshalTriparError without its test for an empty body
UnmarshalTriparErrorNoEmptyTest(b) ==
    IF b.kind = "readfail" THEN Result("read", ErrReadBody)
    ELSE DetectError(b)

UnmarshalTriparError(b) ==
    IF b.kind = "readfail" THEN Result("read", ErrReadBody)
    ELSE IF b.kind = "empty" THEN Result("none", Nil)
    ELSE DetectError(b)

UnmarshalTriparResponse(b) ==
    IF b.kind = "readfail" THEN Result("read", ErrReadBody)
    ELSE IF DetectError(b).class # "none" THEN DetectError(b)
    ELSE IF b.fits THEN [Result("none", Nil) EXCEPT !.payload = TRUE]
    ELSE Result("none", ErrPayload)

DecodeIdle ==
    /\ body = NoBody
    /\ errorResult = NoResult
    /\ responseResult = NoResult

\* a response arrives
Receive(b) ==
    /\ body = NoBody
    /\ body' = b
    /\ UNCHANGED <<errorResult, responseResult>>
    /\ UNCHANGED <<poolVars, clientVars, uploadVars, getVars, server>>

DecodeError ==
    /\ body # NoBody
    /\ errorResult = NoResult
    /\ errorResult' = UnmarshalTriparError(body)
    /\ UNCHANGED <<body, responseResult>>
    /\ UNCHANGED <<poolVars, clientVars, uploadVars, getVars, server>>

DecodeResponse ==
    /\ body # NoBody
    /\ responseResult = NoResult
    /\ responseResult' = UnmarshalTriparResponse(body)
    /\ UNCHANGED <<body, errorResult>>
    /\ UNCHANGED <<poolVars, clientVars, uploadVars, getVars, server>>

\* ================================================================ specifications
ClientsInit ==
    /\ clientPc = [c \in Clients |-> "idle"]
    /\ clientBuf = [c \in Clients |-> 0]

\* one PutObject on a fresh pool
Init ==
    /\ PoolInit
    /\ ClientsInit
    /\ UploadInit
    /\ getChunkSize = MaxChunk
    /\ DownloadInit
    /\ DecodeIdle
    /\ server = "honest"

ProducerNext ==
    \/ ProdGet
    \/ ProdGetResume
    \/ ProdRead
    \/ ProdSend
    \/ ProdAbort
    \/ ProdCloseWriterDone
    \/ ProdClosePipe

ConsumerNext ==
    \/ ConsRecv
    \/ ConsRecvClosed
    \/ ConsHandleFailed
    \/ ConsIssue
    \/ ConsRequestOk
    \/ ConsRequestFailed
    \/ ConsDelete
    \/ ConsNoDelete
    \/ ConsCloseReaderDone
    \/ ConsDrainPiece
    \/ ConsDrainEnd
    \/ ConsReturn

Next == ProducerNext \/ ConsumerNext

Spec == Init /\ [][Next]_vars

\* goroutines are scheduled: every step that stays possible is taken
FairSpec == Spec /\ WF_vars(ProducerNext) /\ WF_vars(ConsumerNext)

\* goroutines that only use the pool; no upload runs
PoolOnlyInit ==
    /\ PoolInit
    /\ ClientsInit
    /\ UploadInit
    /\ srcLen = 0
    /\ srcErr = EOF
    /\ obj = Absent
    /\ getChunkSize = MaxChunk
    /\ DownloadInit
    /\ DecodeIdle
    /\ server = "honest"

PoolNext == \E c \in Clients : ClientGet(c) \/ ClientResume(c) \/ ClientPut(c)

PoolSpec == PoolOnlyInit /\ [][PoolNext]_vars

\* every woken goroutine runs on; holders are free to keep their buffers
PoolFairSpec == PoolSpec /\ \A c \in Clients : WF_vars(ClientResume(c))


\* ------------------------------------------------------------ downloads
\* the spans a caller may pass, proper or not
Spans ==
    {NilSpan} \cup {<<s, e>> : s \in (0 - 1)..MaxSrc, e \in (0 - 1)..(MaxSrc + 1)}

\* no upload is running
UploadOver ==
    /\ count = 0
    /\ srcLen = 0
    /\ srcErr = EOF
    /\ srcPos = 0
    /\ srcDone = TRUE
    /\ pipe = <<>>
    /\ pipeClosed = TRUE
    /\ pipeWriterDone = TRUE
    /\ pipeReaderDone = TRUE
    /\ prodPc = "done"
    /\ prodPiece = NoPiece
    /\ consPc = "returned"
    /\ consPiece = NoPiece
    /\ written = 0
    /\ err = Nil
    /\ requests = <<>>

\* a client, and an object some upload left or a path without one
GetSetup ==
    /\ PoolInit
    /\ cap = 1
    /\ bufferSize = 1
    /\ ClientsInit
    /\ UploadOver
    /\ obj \in {Absent} \cup {StorePut(SrcBytes(0, n)) : n \in 0..MaxSrc}
    /\ getChunkSize \in 1..MaxChunk
    /\ DownloadInit
    /\ DecodeIdle

\* one GetObject from a store that serves the ranges asked for
GetInit == GetSetup /\ server = "honest"

\* one GetObject of the largest object from a store whose responses keep
\* to nothing
GetAnyInit ==
    /\ GetSetup
    /\ obj = StorePut(SrcBytes(0, MaxSrc))
    /\ server = "any"

CallNext ==
    \/ \E sp \in Spans : GetObject(sp)
    \/ StatOk
    \/ StatFailed
    \/ GetComplete
    \/ CompleteOk
    \/ CompleteFailed
    \/ GetByChunksBadRange
    \/ GetByChunks

FetchNext ==
    \/ FetchRequest
    \/ FetchResponseOk
    \/ FetchResponseFailed
    \/ FetchCopied
    \/ FetchWriteClosed
    \/ FetchEnd

StreamNext ==
    \/ StreamRead
    \/ StreamReadEnd
    \/ StreamClose

GetNext == CallNext \/ FetchNext \/ StreamNext

GetSpec == GetInit /\ [][GetNext]_vars

\* the goroutine of getObjectByChunks is scheduled and its requests return
GetFairSpec == GetSpec /\ WF_vars(FetchNext)

GetAnySpec == GetAnyInit /\ [][GetNext]_vars

\* the same, the goroutine scheduled, its requests returning, and the caller
\* reading on for as long as it has not closed the stream
GetAnyFairSpec ==
    /\ GetAnySpec
    /\ WF_vars(FetchNext)
    /\ WF_vars(StreamRead \/ StreamReadEnd)

\* ------------------------------------------------------------ round trips
\* PutObject, then GetObject of the whole object once the upload succeeded
RoundTripInit ==
    /\ PoolInit
    /\ ClientsInit
    /\ UploadInit
    /\ getChunkSize \in 1..MaxChunk
    /\ DownloadInit
    /\ DecodeIdle
    /\ server = "honest"

ReadBack ==
    /\ consPc = "returned"
    /\ err = Nil
    /\ GetObject(NilSpan)

RoundTripNext ==
    \/ Next
    \/ ReadBack
    \/ StatOk
    \/ StatFailed
    \/ GetComplete
    \/ CompleteOk
    \/ CompleteFailed
    \/ StreamRead
    \/ StreamReadEnd

RoundTripSpec == RoundTripInit /\ [][RoundTripNext]_vars

\* ------------------------------------------------------------ transfers
\* PutObject to a new path on a pool of one buffer, then one GetObject of
\* some span of what the upload left there, whether it succeeded or not
TransferInit ==
    /\ PoolInit
    /\ cap = 1
    /\ ClientsInit
    /\ UploadInit
    /\ obj = Absent
    /\ getChunkSize \in 1..MaxChunk
    /\ DownloadInit
    /\ DecodeIdle
    /\ server = "honest"

ReadAfterUpload ==
    /\ consPc = "returned"
    /\ \E sp \in Spans : GetObject(sp)

TransferNext ==
    \/ Next
    \/ ReadAfterUpload
    \/ StatOk
    \/ StatFailed
    \/ GetComplete
    \/ CompleteOk
    \/ CompleteFailed
    \/ GetByChunksBadRange
    \/ GetByChunks
    \/ FetchNext
    \/ StreamNext

TransferSpec == TransferInit /\ [][TransferNext]_vars

\* ------------------------------------------------------------ shared pool
\* the handlePiece of another PutObject on the same pool gives back the
\* buffer its producer got; that piece is then done with
TaskPut(c) ==
    /\ clientPc[c] = "holding"
    /\ PoolPut(clientBuf[c])
    /\ clientPc' = [clientPc EXCEPT ![c] = "done"]
    /\ clientBuf' = [clientBuf EXCEPT ![c] = 0]
    /\ UNCHANGED uploadVars
    /\ UNCHANGED restVars

\* one piece of another PutObject: its buffer is got, held and put back
TaskNext(c) == ClientGet(c) \/ ClientResume(c) \/ TaskPut(c)

\* one PutObject to a new path, and pieces of other PutObject calls that
\* use the same pool
Tasks == 1..(NumClients - 1)

SharedInit ==
    /\ Init
    /\ bufferSize = MaxBuf
    /\ srcLen = MaxBuf + 1
    /\ srcErr \in {EOF, ErrSource}
    /\ obj = Absent

SharedNext == Next \/ \E c \in Tasks : TaskNext(c)

SharedSpec == SharedInit /\ [][SharedNext]_vars

\* every goroutine is scheduled, and every source read and request returns
SharedFairSpec ==
    /\ SharedSpec
    /\ WF_vars(ProducerNext)
    /\ WF_vars(ConsumerNext)
    /\ \A c \in Tasks : WF_vars(TaskNext(c))

\* ------------------------------------------------------------ decoding
DecodeInit ==
    /\ PoolInit
    /\ cap = 1
    /\ bufferSize = 1
    /\ ClientsInit
    /\ UploadOver
    /\ obj = Absent
    /\ getChunkSize = MaxChunk
    /\ DownloadInit
    /\ DecodeIdle
    /\ server = "honest"

DecodeNext == (\E b \in Bodies : Receive(b)) \/ DecodeError \/ DecodeResponse

DecodeSpec == DecodeInit /\ [][DecodeNext]_vars

\* ================================================================ properties
\* ---------------------------------------------------------------- BufferPool
\* a goroutine blocked inside cond.Wait
Blocked(c) == clientPc[c] = "wait" /\ c \in Range(waiters)

\* C3: under any interleaving of Get and Put the pool has allocated at most
\* cap buffers.
C3_SizeAtMostCap == size <= cap

\* the pool is exhausted: cap buffers allocated, all held, a Get blocked
C3_Witness ==
    /\ size = cap
    /\ buffers = <<>>
    /\ \E c \in Clients : Blocked(c)

\* C4: a pass of Get returns at once with the front idle buffer when the free
\* list is not empty, returns at once with a newly allocated buffer when the
\* list is empty and size < cap, and otherwise blocks; a blocked Get stays
\* blocked through every step that is not a Put, and only an unblocked
\* goroutine returns.
C4_GetReturnsOrWaits ==
    [][\A c \in Clients :
        /\ (clientPc[c] = "idle" \/ (clientPc[c] = "wait" /\ ~Blocked(c)))
           /\ <<clientPc[c], clientBuf[c]>>' # <<clientPc[c], clientBuf[c]>>
           => IF buffers # <<>>
              THEN /\ clientPc'[c] = "holding"
                   /\ clientBuf'[c] = Head(buffers)
                   /\ buffers' = Tail(buffers)
                   /\ size' = size
              ELSE IF size < cap
              THEN /\ clientPc'[c] = "holding"
                   /\ clientBuf'[c] \notin {clientBuf[d] : d \in Clients}
                   /\ size' = size + 1
                   /\ buffers' = buffers
              ELSE /\ Blocked(c)'
                   /\ size' = size
        /\ Blocked(c)
           => /\ clientPc'[c] = "wait"
              /\ Blocked(c)' \/ Len(buffers') = Len(buffers) + 1
      ]_vars

\* capacity 2, two buffers out and not returned, the third Get blocked
C4_Witness ==
    /\ cap = 2
    /\ size = 2
    /\ Cardinality({c \in Clients : clientPc[c] = "holding"}) = 2
    /\ \E c \in Clients : Blocked(c)

\* C5: no wakeup is lost.  A Put made while Gets are blocked takes the
\* longest blocked one off the notify list, and a Get that is blocked while a
\* buffer sits in the free list eventually returns with a buffer, unless
\* other goroutines emptied the free list first.
C5_NoLostWakeup ==
    /\ [][Len(buffers') = Len(buffers) + 1 /\ waiters # <<>>
            => Head(waiters) \notin Range(waiters')]_vars
    /\ \A c \in Clients :
         (Blocked(c) /\ buffers # <<>>)
            ~> (clientPc[c] = "holding" \/ buffers = <<>>)

\* two Gets blocked, and a released buffer in the free list
C5_Witness ==
    /\ buffers # <<>>
    /\ \E c \in Clients : Blocked(c)
    /\ \E c \in Clients : clientPc[c] = "wait" /\ ~Blocked(c)

\* ---------------------------------------------------------------- PutObject
Returned == consPc = "returned"

\* the PUT and POST requests of the upload, in the order they went out
WriteRequests == SelectSeq(requests, LAMBDA r : r.method # "DELETE")

DeleteRequests == SelectSeq(requests, LAMBDA r : r.method = "DELETE")

\* the byte offset a write request addresses
Offset(r) == IF r.method = "PUT" THEN 0 ELSE r.range[1]

\* the bytes carried by the first k requests of s
RECURSIVE SumN(_, _)
SumN(s, k) == IF k = 0 THEN 0 ELSE SumN(s, k - 1) + s[k].n

\* C1 as stated: after PutObject returns, the object holds exactly the bytes
\* of the source (success) or does not exist (error).
C1_AllOrNothing ==
    Returned =>
        \/ err = Nil /\ obj = StorePut(SrcContent)
        \/ err # Nil /\ obj = Absent

\* C1, amended: after a successful PutObject the object holds exactly the
\* bytes of the source up to its end; after a failed one the object does not
\* exist, unless the cleanup DELETE itself failed.
C1_AllOrNothingIfDeleted ==
    Returned =>
        \/ /\ err = Nil
           /\ srcErr = EOF
           /\ obj = StorePut(SrcContent)
        \/ /\ err # Nil
           /\ requests # <<>>
           /\ requests[Len(requests)].method = "DELETE"
           /\ obj = Absent \/ requests[Len(requests)].status = "failed"

\* the source failed after earlier pieces were written, and the object is gone
C1_Witness ==
    /\ Returned
    /\ err = ErrSource
    /\ written > 0
    /\ obj = Absent
    /\ requests[Len(requests)].status = "ok"

\* C2: when PutObject returns, on every path, each buffer it took with Get
\* was given back with Put: the counting pool is at zero and every buffer the
\* pool allocated is in the free list.
C2_NoBufferLeak ==
    Returned =>
        /\ count = 0
        /\ Len(buffers) = size
        /\ Cardinality(Range(buffers)) = size
        /\ prodPiece.buf = 0 /\ consPiece.buf = 0 /\ pipe = <<>>

\* a failed request ended an upload that had two buffers in flight
C2_Witness ==
    /\ Returned
    /\ err \in {ErrRequest, ErrResponse}
    /\ size >= 2
    /\ srcPos > written + bufferSize

\* C6: write requests go out one at a time in source order: each is issued
\* only after every earlier one succeeded, addresses the offset that is the
\* sum of the bytes acknowledged before it, which is written; written is the
\* sum of the bytes of the requests that succeeded; offsets strictly increase.
C6_SequentialContiguous ==
    LET W == WriteRequests IN
    /\ \A i \in 1..Len(W) :
         /\ i < Len(W) => W[i].status = "ok"
         /\ Offset(W[i]) = SumN(W, i - 1)
         /\ W[i].status = "inflight" => Offset(W[i]) = written
         /\ \A j \in 1..Len(W) : i < j => Offset(W[i]) < Offset(W[j])
    /\ written = SumN(W, Len(W))
                 - (IF W # <<>> /\ W[Len(W)].status # "ok"
                    THEN W[Len(W)].n ELSE 0)
    /\ written > 0 /\ DeleteRequests = <<>> => obj = StorePut(SrcBytes(0, written))

\* three pieces acknowledged in a row
C6_Witness ==
    /\ Len(WriteRequests) >= 3
    /\ WriteRequests[3].status = "ok"
    /\ written > Offset(WriteRequests[3])

\* C7 as stated: the first piece goes out as a PUT without Range, every later
\* one as a POST with Range bytes=written-(written+read-1), and exactly one
\* PUT is issued per upload.
C7_ExactlyOnePut ==
    Returned => Len(SelectSeq(requests, LAMBDA r : r.method = "PUT")) = 1

\* C7, amended: the first piece that is sent goes out as a PUT without Range
\* and every later one as a POST with Range bytes=written-(written+read-1),
\* so at most one PUT is issued and it precedes every POST; an upload issues
\* no PUT at all exactly when its first piece carries a source failure.
C7_PutThenPosts ==
    LET W == WriteRequests IN
    /\ \A i \in 1..Len(W) :
         IF i = 1
         THEN W[i].method = "PUT" /\ W[i].range = <<>>
         ELSE /\ W[i].method = "POST"
              /\ W[i].range = <<SumN(W, i - 1), SumN(W, i - 1) + W[i].n - 1>>
    /\ Returned /\ W = <<>> =>
         /\ err \in {ErrUnexpectedEOF, ErrSource}
         /\ written = 0
    /\ Returned /\ err \in {ErrUnexpectedEOF, ErrSource} /\ written = 0 => W = <<>>

\* an upload of a PUT and two POSTs
C7_Witness ==
    /\ Returned
    /\ Len(WriteRequests) = 3
    /\ WriteRequests[3].method = "POST"
    /\ WriteRequests[3].n > 0

\* C8: a PutObject that returns an error issued one DELETE, after the
\* failing step and as its last request, and the DELETE's own result does
\* not change the error returned; a PutObject that returns success issued no
\* DELETE.
C8_DeleteOnError ==
    /\ [](consPc \in {"deferDrain", "drain", "waitWriter", "returned"} =>
            IF err # Nil
            THEN /\ Len(DeleteRequests) = 1
                 /\ requests[Len(requests)].method = "DELETE"
            ELSE DeleteRequests = <<>>)
    /\ [](consPc \notin {"deferDrain", "drain", "waitWriter", "returned"} =>
            DeleteRequests = <<>>)
    /\ [][consPc = "deferDelete" => err' = err]_vars

\* a failed write request followed by a failed DELETE
C8_Witness ==
    /\ Returned
    /\ err = ErrResponse
    /\ Len(requests) >= 2
    /\ requests[Len(requests)].method = "DELETE"
    /\ requests[Len(requests)].status = "failed"
    /\ requests[Len(requests) - 1].status = "failed"

\* C9 as stated: a source that ended with an error other than io.EOF makes
\* PutObject return that error.
C9_ReturnsSourceError ==
    Returned /\ srcDone /\ srcErr # EOF => err = srcErr

\* C9, amended: if the source ends with an error other than io.EOF,
\* PutObject never reports success; it returns that error, unless a write
\* request for an earlier piece failed first, and then it returns that
\* request's error.  Only io.EOF ends an upload in success.
C9_SourceErrorNeverSuccess ==
    Returned =>
        /\ srcErr # EOF =>
             \/ err = srcErr
             \/ /\ err \in {ErrRequest, ErrResponse}
                /\ WriteRequests # <<>>
                /\ WriteRequests[Len(WriteRequests)].status = "failed"
        /\ err = Nil => srcErr = EOF /\ srcDone
        /\ err \in {ErrUnexpectedEOF, ErrSource} => err = srcErr /\ srcDone

\* io.ErrUnexpectedEOF after data that was written
C9_Witness ==
    /\ Returned
    /\ srcErr = ErrUnexpectedEOF
    /\ err = ErrUnexpectedEOF
    /\ written > 0

\* C10: once the consumer has terminated on a failed piece, the producer
\* stops: it is never left blocked on the handoff, it gives its buffer back,
\* it exits, and PutObject returns with every buffer in the pool.
ConsumerFailed ==
    /\ err # Nil
    /\ consPc \in {"deferDelete", "deferDrain", "drain", "waitWriter"}

C10_ProducerStops ==
    ConsumerFailed ~>
        /\ prodPc = "done"
        /\ prodPiece.buf = 0
        /\ Returned
        /\ Len(buffers) = size

\* the consumer is gone while the producer holds a filled buffer that the
\* full pipe cannot take
C10_Witness ==
    /\ ConsumerFailed
    /\ pipeReaderDone
    /\ prodPc = "select"
    /\ Len(pipe) = PipeDepth
    /\ srcPos < srcLen

\* ---------------------------------------------------------------- GetObject
\* the caller has read the stream to a clean end
ReadToEnd == readPc = "eof" /\ readErr = EOF

\* C11: round trip: after a PutObject of the byte sequence B that returned
\* success, a GetObject of the whole object (no span) that is read to its end
\* yields exactly B, for B from the empty sequence up to several multiples of
\* the buffer size.
C11_RoundTrip ==
    ReadToEnd /\ span = NilSpan /\ err = Nil => got = SrcContent

\* a source of more than two buffers, uploaded in several pieces and read back
C11_Witness ==
    /\ ReadToEnd
    /\ err = Nil
    /\ srcLen > 2 * bufferSize
    /\ Len(WriteRequests) >= 3
    /\ got = SrcContent

\* the requests for the object's bytes, the Stat left out
ObjectRequests == SelectSeq(getRequests, LAMBDA r : r.cmd = "get")

\* a span inside the object: 0 <= s <= e <= size - 1
ProperSpan ==
    /\ span # NilSpan
    /\ obj.exists
    /\ 0 <= span[1]
    /\ span[1] <= span[2]
    /\ span[2] <= Len(obj.data) - 1

\* C12: a GetObject with a span [s,e], 0 <= s <= e <= size-1, read to its
\* end yields exactly the bytes B[s] through B[e] of the object's content B,
\* also when the span is longer than the chunk size and is put together from
\* several chunk requests.
C12_SubSpan ==
    ReadToEnd /\ ProperSpan =>
        got = SubSeq(obj.data, span[1] + 1, span[2] + 1)

\* a span read to its end through three chunk requests or more
C12_Witness ==
    /\ ReadToEnd
    /\ ProperSpan
    /\ getPath = "chunks"
    /\ Len(ObjectRequests) >= 3
    /\ span[1] > 0
    /\ got = SubSeq(obj.data, span[1] + 1, span[2] + 1)

\* the bytes the first k requests of a sequence of range requests carry
RECURSIVE ChunkBytes(_, _)
ChunkBytes(reqs, k) ==
    IF k = 0 THEN <<>>
    ELSE ChunkBytes(reqs, k - 1) \o ObjectBytes(reqs[k].range[1], reqs[k].range[2])

\* the caller has read a chunked download as far as it goes, and the
\* goroutine had stopped with bytes still to fetch: its last request failed
ChunkFailedAndRead ==
    /\ getPath = "chunks"
    /\ readPc \in {"eof", "failed"}
    /\ left > 0

\* C13: when a chunk request of a chunked download fails, GetObject itself
\* has returned a stream without error, and the caller reads every byte of
\* the chunks before the failing one and then gets the failing chunk's error
\* from Read, never a clean end of stream.
C13_ChunkErrorOnRead ==
    /\ fetchPc # "idle" => getPc = "returned" /\ getErr = Nil
    /\ ChunkFailedAndRead =>
         /\ readPc = "failed"
         /\ readErr = ErrGet
         /\ got = ChunkBytes(ObjectRequests, Len(ObjectRequests) - 1)

\* the third chunk request fails after two chunks were read
C13_Witness ==
    /\ ChunkFailedAndRead
    /\ readErr = ErrGet
    /\ Len(ObjectRequests) = 3
    /\ Len(got) = 2 * getChunkSize
    /\ getErr = Nil

\* GetObject has got the object's size from Stat
StatDone == getPc \in {"dispatch", "complete", "returned"} /\ getErr # ErrStat

\* the call was turned down as a bad range without a request for the object
RejectedUnrequested ==
    /\ ObjectRequests = <<>>
    /\ getPc = "returned" => getErr = ErrBadRange

\* C14: a GetObject with a span [s,e] whose end is at or beyond the object's
\* size (e >= size) is rejected with ErrBadRange and issues no request for
\* the object beyond the Stat.
C14_EndBeyondSizeRejected ==
    StatDone /\ span # NilSpan /\ span[2] >= statSize => RejectedUnrequested

\* C15: a span with start < 0, or with length greater than the object's
\* size, or with end < start is rejected with ErrBadRange before any request
\* for the object is made.
C15_InvalidSpanRejected ==
    /\ StatDone
    /\ span # NilSpan
    /\ \/ span[1] < 0
       \/ span[2] - span[1] + 1 > statSize
       \/ span[2] < span[1]
    => RejectedUnrequested

\* C17: a span goes to the chunked pipeline exactly when its length
\* (end - start + 1) exceeds the chunk size; a span of at most the chunk
\* size is served by one direct range request.
C17_ChunkedIffLonger ==
    getPath # "none" /\ span # NilSpan =>
        IF span[2] - span[1] + 1 > getChunkSize
        THEN getPath = "chunks"
        ELSE getPath = "complete" /\ Len(ObjectRequests) <= 1

\* C18: a GetObject without a span of an object larger than one chunk is
\* read by the chunked pipeline: by range requests of at most the chunk size
\* each, not by one request for the whole object.
C18_WholeObjectChunked ==
    getPath # "none" /\ span = NilSpan /\ statSize > getChunkSize =>
        /\ getPath = "chunks"
        /\ \A i \in 1..Len(ObjectRequests) :
             /\ ObjectRequests[i].range # NilSpan
             /\ ObjectRequests[i].range[2] - ObjectRequests[i].range[1] + 1
                    <= getChunkSize

\* the chunk requests issued after the caller had closed the stream
LateRequests == SelectSeq(getRequests, LAMBDA r : r.late)

\* the caller closed the stream of a chunked download
ClosedEarly == getPath = "chunks" /\ rClosed

PieceCount(n, s) == IF n = 0 THEN 1 ELSE (n + s - 1) \div s

\* C19: a PutObject of an N-byte source with buffer size S that returns
\* success has issued exactly ceil(N/S) write requests (one for an empty
\* source), every one but the last carrying exactly S bytes, also when the
\* source delivers short reads, and their byte counts sum to N.
C19_PieceCount ==
    Returned /\ err = Nil =>
        LET W == WriteRequests IN
        /\ Len(W) = PieceCount(srcLen, bufferSize)
        /\ \A i \in 1..(Len(W) - 1) : W[i].n = bufferSize
        /\ SumN(W, Len(W)) = srcLen

\* ---------------------------------------------------------------- decoders
\* both decoders have been applied to the response body
BothDecoded == errorResult # NoResult /\ responseResult # NoResult

\* the payload is deserialized only once no error was detected
PayloadOnlyAfterDetection ==
    responseResult.payload =>
        responseResult.class = "none" /\ responseResult.err = Nil

\* C20 as stated: for every body the two decoders classify alike, and an
\* empty body decodes to no error.
C20_SameDetection ==
    BothDecoded =>
        /\ errorResult.class = responseResult.class
        /\ body.kind = "empty" =>
             errorResult.err = Nil /\ responseResult.class = "none"
        /\ PayloadOnlyAfterDetection

\* C20: for every body that is not empty UnmarshalTriparError and
\* UnmarshalTriparResponse classify alike (read failure, no error, remote
\* error with the same translated error, decode failure), and only then does
\* UnmarshalTriparResponse deserialize a payload; an empty body is no error
\* for UnmarshalTriparError and a decode failure for UnmarshalTriparResponse.
C20_SameDetectionUnlessEmpty ==
    BothDecoded =>
        /\ body.kind # "empty" =>
             /\ errorResult.class = responseResult.class
             /\ errorResult.class # "none" =>
                  errorResult.err = responseResult.err
             /\ errorResult.class = "none" => errorResult.err = Nil
        /\ body.kind = "empty" =>
             /\ errorResult = Result("none", Nil)
             /\ responseResult = Result("decode", ErrDecode)
        /\ PayloadOnlyAfterDetection

\* a body with error code 17 put through both decoders
C20_Witness ==
    /\ BothDecoded
    /\ body.kind = "error"
    /\ body.code = 17
    /\ errorResult.class = "remote"
    /\ errorResult.err = ErrAlreadyExists
    /\ responseResult = errorResult

\* C21: a decoded remote error is translated by its code through a fixed
\* table: 2 to not-found, 17 to already-exists, 21 to not-a-file, 10004 to
\* bad-range, and every other code to a generic remote error that carries
\* the server's code and message.
C21_TranslationTable ==
    errorResult # NoResult /\ body.kind = "error" =>
        /\ errorResult.class = "remote"
        /\ body.code = 2 => errorResult.err = ErrNotFound
        /\ body.code = 17 => errorResult.err = ErrAlreadyExists
        /\ body.code = 21 => errorResult.err = ErrNotAFile
        /\ body.code = 10004 => errorResult.err = ErrBadRange
        /\ body.code \notin {2, 17, 21, 10004} =>
             /\ errorResult.err = ErrRemote
             /\ errorResult.detail = [code |-> body.code, msg |-> body.msg]

\* a body with a code outside the table has been decoded
C21_Witness ==
    /\ errorResult # NoResult
    /\ body.kind = "error"
    /\ body.code = 5
    /\ errorResult.err = ErrRemote
    /\ errorResult.detail.msg = body.msg

\* ---------------------------------------------------------------- chunks
\* the Content-Lengths of the first k responses of a sequence of requests
RECURSIVE SumRlen(_, _)
SumRlen(reqs, k) == IF k = 0 THEN 0 ELSE SumRlen(reqs, k - 1) + reqs[k].rlen

\* request i of a log is for [start, start+len-1], len = min(remaining,
\* chunk size), with start and remaining moved on by the Content-Lengths of
\* the responses before it
FollowsDeclaredLengths(reqs, i) ==
    LET done == SumRlen(reqs, i - 1) IN
    /\ reqs[i].range[1] = ChunkStart(span) + done
    /\ reqs[i].range[2] =
         reqs[i].range[1] + Min(ChunkLeft(span) - done, getChunkSize) - 1

\* the response before request i + 1 was copied whole
CopiedWhole(reqs, i) == reqs[i].rlen >= 0 /\ reqs[i].blen = reqs[i].rlen

\* C22: a chunked download issues its range requests one at a time in
\* strictly ascending offset order: each covers [start, start+len-1] with
\* len = min(remaining, chunk size), the next is issued only after the
\* response before it was copied whole, and start and remaining move by
\* each response's declared content length.
C22_AscendingChunks ==
    getPath = "chunks" =>
        LET R == ObjectRequests IN
        /\ \A i \in 1..Len(R) : FollowsDeclaredLengths(R, i)
        /\ \A i \in 1..(Len(R) - 1) :
             /\ CopiedWhole(R, i)
             /\ R[i].range[1] < R[i + 1].range[1]
        /\ fetchPc = "request" => pending = <<>>

\* ---------------------------------------------------------------- retries
\* a settled request of the upload that did not succeed
FailedWrite(r) == r.method # "DELETE" /\ r.status = "failed"

\* C23: no failed step is retried: after the first failed piece of an upload
\* no further PUT or POST is issued for it, only the cleanup DELETE, and
\* after the first failed chunk of a download no further range GET is
\* issued for it.
C23_NoRetry ==
    /\ [](\A i \in 1..Len(requests) :
            FailedWrite(requests[i]) =>
                \A j \in (i + 1)..Len(requests) : requests[j].method = "DELETE")
    /\ [][err # Nil => WriteRequests' = WriteRequests]_vars
    /\ [](getPath = "chunks" =>
            \A i \in 1..(Len(ObjectRequests) - 1) : ObjectRequests[i].rlen >= 0)
    /\ [][wErr # Nil \/ getErr # Nil
            => ObjectRequests' = ObjectRequests]_vars

\* an upload that failed at its third write request or later and left what
\* it had written, and a chunked download of that whose second chunk
\* request or a later one failed
C23_Witness ==
    /\ Returned
    /\ err # Nil
    /\ Len(WriteRequests) >= 3
    /\ FailedWrite(WriteRequests[Len(WriteRequests)])
    /\ getPath = "chunks"
    /\ fetchPc = "done"
    /\ wErr = ErrGet
    /\ Len(ObjectRequests) >= 2

\* ---------------------------------------------------------------- lengths
\* a chunk response whose body is not as long as its Content-Length says
Mismatched(r) == r.rlen >= 0 /\ r.blen # r.rlen

\* C24: a chunk response whose body holds fewer or more bytes than the
\* Content-Length it declares is fatal to a chunked download: no further
\* chunk is requested, and the stream ends with an error, not with a clean
\* end.
C24_LengthMismatchFatal ==
    getPath = "chunks" =>
        \A i \in 1..Len(ObjectRequests) :
            Mismatched(ObjectRequests[i]) =>
                /\ i = Len(ObjectRequests)
                /\ fetchPc \in {"copy", "done"}
                /\ fetchPc = "done" => wErr # Nil
                /\ readPc # "eof"
                /\ readPc = "failed" => readErr = ErrShortCopy

\* the second chunk response carried one byte more than it declared; the
\* caller read all of it and then got the error
C24_Witness ==
    /\ getPath = "chunks"
    /\ Len(ObjectRequests) = 2
    /\ ObjectRequests[2].blen = ObjectRequests[2].rlen + 1
    /\ readPc = "failed"
    /\ readErr = ErrShortCopy
    /\ Len(got) = ObjectRequests[1].blen + ObjectRequests[2].blen

\* ---------------------------------------------------------------- last piece
\* C25: a piece that ends the stream is written if it carries trailing
\* data, and PutObject then ends in success; an end-of-stream piece without
\* data that follows written pieces produces no POST.
C25_EndOfStreamPiece ==
    /\ Returned /\ srcErr = EOF
         /\ (\A i \in 1..Len(requests) : requests[i].status = "ok") =>
            /\ err = Nil
            /\ SumN(WriteRequests, Len(WriteRequests)) = srcLen
            /\ obj.data = SrcContent
    /\ \A i \in 1..Len(requests) :
         requests[i].method = "POST" => requests[i].n > 0

\* ---------------------------------------------------------------- buffers
\* the pool buffers an upload holds: allocated and not on the free list
HeldBuffers == size - Len(buffers)

One(b) == IF b THEN 1 ELSE 0

\* C26 as stated: the producer is never more than one buffer ahead of the
\* consumer, so one PutObject holds at most two pool buffers at any time.
C26_AtMostTwoBuffers == HeldBuffers <= 2

\* C26: the handoff channel of depth 1 bounds what one PutObject holds: at
\* most one buffer with the producer, one piece in the channel and one
\* buffer with the consumer, three pool buffers in all.
C26_AtMostThreeBuffers ==
    /\ Len(pipe) <= PipeDepth
    /\ HeldBuffers =
         One(prodPiece.buf # 0) + Len(pipe) + One(consPiece.buf # 0)
    /\ HeldBuffers <= PipeDepth + 2

\* the consumer writes one piece, a second waits in the channel, and the
\* producer has filled a third buffer that the channel cannot take
C26_Witness ==
    /\ HeldBuffers = 3
    /\ consPc = "request"
    /\ Len(pipe) = PipeDepth
    /\ prodPc = "select"

\* ---------------------------------------------------------------- Put
\* goroutine c has been taken off the notify list and has not run yet
Signalled(c) == clientPc[c] = "wait" /\ c \notin Range(waiters)

\* the step is a Put of goroutine c
PutStep(c) == clientPc[c] = "holding" /\ clientPc'[c] = "idle"

\* C27: BufferPool.Put never fails and never waits: it puts the buffer on
\* the free list, wakes one blocked Get if there is any and no more than
\* one, and leaves the allocated count as it is, so the allocated count
\* never decreases.
C27_PutFrame ==
    /\ [](\A c \in Clients : clientPc[c] = "holding" => ENABLED ClientPut(c))
    /\ [][\A c \in Clients : PutStep(c) =>
            /\ buffers' = <<clientBuf[c]>> \o buffers
            /\ waiters' = IF waiters = <<>> THEN <<>> ELSE Tail(waiters)
            /\ size' = size
            /\ cap' = cap]_vars
    /\ [][size' >= size]_vars

\* a Put with two goroutines blocked in Get has woken the first of them
C27_Witness ==
    /\ size = cap
    /\ Len(buffers) = 1
    /\ Len(waiters) = 1
    /\ \E c \in Clients : Signalled(c)

\* ---------------------------------------------------------------- sharing
\* C28: PutObject calls that share one pool of capacity >= 1 cannot
\* deadlock: a goroutine blocked in Get holds no pool buffer, and when every
\* source read and request returns, every call returns and every buffer it
\* held is back in the pool.
C28_NoDeadlock ==
    /\ [](prodPc = "wait" => prodPiece.buf = 0)
    /\ [](\A c \in Tasks : clientPc[c] = "wait" => clientBuf[c] = 0)
    /\ <>[](/\ Returned
            /\ prodPc = "done"
            /\ \A c \in Tasks : clientPc[c] = "done"
            /\ HeldBuffers = 0)

\* the pool is used up while the producer and another call both wait in Get
C28_Witness ==
    /\ size = cap
    /\ buffers = <<>>
    /\ prodPc = "wait"
    /\ Producer \in Range(waiters)
    /\ \E c \in Tasks : Blocked(c)

\* ---------------------------------------------------------------- return
\* C29: PutObject returns only after its producer goroutine has run to its
\* end and the handoff channel is closed and empty; after the return the
\* call reads nothing more from the source and makes no pool Get or Put.
C29_QuietAfterReturn ==
    /\ [](Returned =>
            /\ prodPc = "done"
            /\ pipeWriterDone
            /\ pipeClosed
            /\ pipe = <<>>)
    /\ [][Returned =>
            /\ srcPos' = srcPos
            /\ srcDone' = srcDone
            /\ count' = count
            /\ UNCHANGED poolVars]_vars

\* a failed upload has returned while part of the source is still unread
C29_Witness ==
    /\ Returned
    /\ err # Nil
    /\ srcPos < srcLen
    /\ pipeReaderDone

\* ---------------------------------------------------------------- cleanup
\* no PUT or POST of the upload succeeded
NoWriteSucceeded ==
    \A i \in 1..Len(requests) :
        requests[i].method # "DELETE" => requests[i].status # "ok"

\* PutObject failed before any of its write requests succeeded
FailedBeforeWrite == Returned /\ err # Nil /\ NoWriteSucceeded

\* the last request of the call is the cleanup DELETE
DeleteIssued ==
    /\ requests # <<>>
    /\ requests[Len(requests)].method = "DELETE"

\* C30 as stated: a PutObject that fails before any write request succeeded
\* still issues the cleanup DELETE, so an object that was at the path before
\* the call is gone.
C30_PriorObjectGone ==
    FailedBeforeWrite => DeleteIssued /\ obj = Absent

\* C30: a PutObject that fails before any write request succeeded still
\* issues the cleanup DELETE as its last request; an object that was at the
\* path before the call is gone when that DELETE succeeded and is left as it
\* was when the DELETE failed.
C30_PriorObjectGoneIfDeleted ==
    FailedBeforeWrite =>
        /\ DeleteIssued
        /\ \/ obj = Absent
           \/ /\ requests[Len(requests)].status = "failed"
              /\ obj = StorePut(<<255>>)

\* the source failed in the first piece and the DELETE removed the object
\* that was there before
C30_Witness ==
    /\ Returned
    /\ err = ErrSource
    /\ Len(requests) = 1
    /\ requests[1].method = "DELETE"
    /\ requests[1].status = "ok"
    /\ obj = Absent

\* ---------------------------------------------------------------- lockstep
\* the body lengths of the first k responses of a sequence of requests
RECURSIVE SumBlen(_, _)
SumBlen(reqs, k) == IF k = 0 THEN 0 ELSE SumBlen(reqs, k - 1) + reqs[k].blen

\* the chunk requests whose response has come
AnsweredRequests == SelectSeq(ObjectRequests, LAMBDA r : r.blen >= 0)

\* a step of a chunked download that issues a chunk request
ChunkRequestStep ==
    /\ getPath = "chunks"
    /\ Len(getRequests') > Len(getRequests)

\* C31: in a chunked download the request for the next chunk is issued only
\* after the caller has read every byte of the chunks before it: the pipe
\* holds no data then, and the fetcher is never more than one chunk ahead.
C31_Lockstep ==
    /\ [][ChunkRequestStep =>
            /\ pending = <<>>
            /\ Len(got) = SumBlen(ObjectRequests, Len(ObjectRequests))]_vars
    /\ [](getPath = "chunks" /\ fetchPc \in {"loop", "request"} => pending = <<>>)
    /\ [](getPath = "chunks" /\ ~rClosed =>
            /\ pending # <<>> => fetchPc = "copy"
            /\ Len(got) + Len(pending) = SumBlen(AnsweredRequests, Len(AnsweredRequests)))

\* the third chunk is being requested after the caller read two whole chunks
C31_Witness ==
    /\ getPath = "chunks"
    /\ fetchPc = "request"
    /\ ~rClosed
    /\ Len(ObjectRequests) = 3
    /\ Len(got) = 2 * getChunkSize
    /\ pending = <<>>

\* ---------------------------------------------------------------- ranges
\* the first and the last offset a chunked download is to deliver
SpanStart == ChunkStart(span)

SpanEnd == ChunkStart(span) + ChunkLeft(span) - 1

\* C32: in a chunked download of the span [s,e] every range request [a,b]
\* has s <= a <= b <= e and b - a + 1 <= chunk size, and start + remaining is
\* e + 1 before every request, whatever non-negative lengths the responses
\* declare.
C32_RequestsInSpan ==
    getPath = "chunks" /\ fetchPc # "idle" =>
        /\ getChunkSize >= 1
        /\ \A i \in 1..Len(ObjectRequests) :
             LET a == ObjectRequests[i].range[1]
                 b == ObjectRequests[i].range[2] IN
             /\ SpanStart <= a
             /\ a <= b
             /\ b <= SpanEnd
             /\ b - a + 1 <= getChunkSize
        /\ start + left = SpanEnd + 1

\* the first response declared less than was asked for and the second more
\* than was left
C32_Witness ==
    /\ getPath = "chunks"
    /\ server = "any"
    /\ Len(ObjectRequests) = 2
    /\ ObjectRequests[1].rlen >= 0
    /\ ObjectRequests[1].rlen
         < ObjectRequests[1].range[2] - ObjectRequests[1].range[1] + 1
    /\ ObjectRequests[2].rlen
         > ObjectRequests[2].range[2] - ObjectRequests[2].range[1] + 1
    /\ left < 0

\* ---------------------------------------------------------------- termination
\* a chunk request that follows another asks for bytes further on
MovesOn == ObjectRequests # <<>> => start > ObjectRequests[Len(ObjectRequests)].range[1]

\* the goroutine of a chunked download comes to its end
FetcherEnds == fetchPc # "idle" ~> fetchPc = "done"

\* C33: the goroutine of a chunked download ends once the caller reads the
\* stream to its end or closes it, for every sequence of declared lengths and
\* body lengths of the responses, and it never loops without progress: every
\* request after the first asks for bytes beyond the start of the one before.
C33_FetcherTerminates ==
    /\ [][ChunkRequestStep => MovesOn]_vars
    /\ FetcherEnds

====
